---- MODULE Spec2Model ----
(***************************************************************************)
(* Model of app/ingest.py: the sliding-window chunker (sliding_window,    *)
(* chunk_documents), the repository reader with branch fallback           *)
(* (read_repo_data) and the pipeline index_data, and of SearchTool of     *)
(* app/search_tools.py.                                                    *)
(*                                                                         *)
(* A Python str is a sequence of one-character strings; a Python dict is  *)
(* a function whose domain is its set of keys; a list is a sequence.      *)
(***************************************************************************)
EXTENDS Integers, Sequences, FiniteSets, TLC

VARIABLES
    pc,               \* position of the running call
    text, size, step, \* arguments of sliding_window / chunk_documents
    out,              \* list returned by sliding_window
    docs,             \* chunk_documents: argument; read_repo_data: list being built
    chunks,           \* list returned by chunk_documents
    err,              \* exception that left the call ("None" when none)
    branches, include_exts, include_prefixes,  \* arguments of read_repo_data
    bi,               \* index in branches of the candidate of the for loop
    zf,               \* entries of the opened archive (zf.infolist())
    fi,               \* index in zf of the entry of the inner for loop
    last_err,         \* read_repo_data's last_err
    attempts,         \* history: one record per candidate attempted, in order
    result,           \* value returned by read_repo_data
    indexes,          \* the minsearch.Index objects created so far
    index,            \* index_data's local index: position in indexes, 0 when unset
    tools,            \* the SearchTool objects created so far
    searches          \* the SearchTool.search calls begun so far

searchVars == <<indexes, index, tools, searches>>

vars == <<pc, text, size, step, out, docs, chunks, err, branches, include_exts,
          include_prefixes, bi, zf, fi, last_err, attempts, result, searchVars>>

---------------------------------------------------------------------------
(* Bounds *)

MaxLen == 4       \* longest text drawn over Alphabet
MaxSize == 4      \* largest size / step drawn (besides the examples' values)

Alphabet == {"a", "b"}

Hello == <<"H","e","l","l","o"," ","W","o","r","l","d"," ","E","x","a","m","p","l","e">>
Digits == <<"0","1","2","3","4","5","6","7","8","9">>
ExampleSize == 10
ExampleStep == 5

Texts == UNION {[1..n -> Alphabet] : n \in 0..MaxLen} \cup {Hello, Digits}
Sizes == (-1..MaxSize) \cup {ExampleSize}
Steps == (-1..MaxSize) \cup {ExampleStep}

Min(a, b) == IF a < b THEN a ELSE b

---------------------------------------------------------------------------
(* sliding_window *)

\* Python slice s[i : j] for 0 <= i, clipped at the end of s.
Slice(s, i, j) == SubSeq(s, i + 1, Min(j, Len(s)))

BatchShort(t, i, sz) == Slice(t, i, i + sz - 1)

\* batch = text[i : i + size]
Batch(t, i, sz) == Slice(t, i, i + sz)

InvalidArgsBoth(sz, st) == sz <= 0 /\ st <= 0

\* if size <= 0 or step <= 0
InvalidArgs(sz, st) == sz <= 0 \/ st <= 0

RangeStopEarly(n, sz) == n - sz

\* the stop argument of range(0, n, step)
RangeStop(n, sz) == n

\* if i + size > n: break
BreakNow(i, sz, n) == i + sz > n

\* The body of "for i in range(0, n, step)" from index i on, having emitted o.
RECURSIVE WindowLoop(_, _, _, _, _)
WindowLoop(t, sz, st, i, o) ==
    IF i >= RangeStop(Len(t), sz)
    THEN o
    ELSE LET o2 == Append(o, [start |-> i, content |-> Batch(t, i, sz)])
         IN  IF BreakNow(i, sz, Len(t)) THEN o2 ELSE WindowLoop(t, sz, st, i + st, o2)

\* sliding_window(text, size, step): the exception raised and the list returned.
\* range() itself raises ValueError on a zero step and is empty on a negative one.
sliding_window(t, sz, st) ==
    IF InvalidArgs(sz, st) THEN [err |-> "ValueError", out |-> <<>>]
    ELSE IF st = 0 THEN [err |-> "ValueError", out |-> <<>>]
    ELSE IF st < 0 THEN [err |-> "None", out |-> <<>>]
    ELSE [err |-> "None", out |-> WindowLoop(t, sz, st, 0, <<>>)]

\* last_err = None
NoErr == [kind |-> "None", at |-> 0]

\* read_repo_data has returned nothing
NoResult == [docs |-> <<>>, branch |-> "None"]

NoRepo ==
    /\ branches = <<>> /\ include_exts = {} /\ include_prefixes = {}
    /\ bi = 0 /\ zf = <<>> /\ fi = 0 /\ last_err = NoErr
    /\ attempts = <<>> /\ result = NoResult

\* No index, no tool and no search exists.
NoSearch == indexes = <<>> /\ index = 0 /\ tools = <<>> /\ searches = <<>>

InitWindow ==
    /\ pc = "call"
    /\ text \in Texts /\ size \in Sizes /\ step \in Steps
    /\ out = <<>> /\ err = "None"
    /\ docs = <<>> /\ chunks = <<>>
    /\ NoRepo
    /\ NoSearch

SlidingWindowCall ==
    /\ pc = "call"
    /\ LET r == sliding_window(text, size, step)
       IN  /\ out' = r.out
           /\ err' = r.err
           /\ pc' = IF r.err = "None" THEN "done" ELSE "raised"
    /\ UNCHANGED <<text, size, step, docs, chunks, branches, include_exts,
                   include_prefixes, bi, zf, fi, last_err, attempts, result,
                   searchVars>>

NextWindow == SlidingWindowCall

SpecWindow == InitWindow /\ [][NextWindow]_vars

---------------------------------------------------------------------------
(* Properties of sliding_window, checked under SpecWindow *)

\* Offset one past the last character of chunk c.
ChunkEnd(c) == c.start + Len(c.content)

\* Every character offset of a text of length n lies in some chunk of o.
Covered(o, n) ==
    \A p \in 0..(n - 1) : \E k \in 1..Len(o) : o[k].start <= p /\ p < ChunkEnd(o[k])

\* The first chunk starts at 0 and each next chunk starts no later than the
\* previous one ends.
NoGap(o) ==
    /\ o # <<>> => o[1].start = 0
    /\ \A k \in 1..(Len(o) - 1) : o[k + 1].start <= ChunkEnd(o[k])

\* End of the last chunk; 0 when there is no chunk.
LastEnd(o) == IF o = <<>> THEN 0 ELSE ChunkEnd(o[Len(o)])

Returned == pc = "done" /\ size > 0 /\ step > 0

\* C1 as stated: for every text and every size > 0, step > 0 (step > size
\* included) the returned chunks cover [0, len(text)) without a gap and the
\* last chunk ends at len(text).
C1_AnyStepCovers ==
    Returned => /\ Covered(out, Len(text))
                /\ NoGap(out)
                /\ LastEnd(out) = Len(text)

\* C1 amended: the same for step <= size; the last chunk, which exists
\* whenever the text is not empty, ends at len(text).
C1_StepWithinSizeCovers ==
    (Returned /\ step <= size) =>
        /\ Covered(out, Len(text))
        /\ NoGap(out)
        /\ LastEnd(out) = Len(text)
        /\ (text # <<>> => out # <<>>)

C1_Witness ==
    /\ Returned /\ step < size
    /\ Len(out) >= 3
    /\ Len(out[Len(out)].content) < size
    /\ LastEnd(out) = Len(text)

\* C2: for size > 0 and step > 0 the empty text yields exactly one chunk,
\* with start 0 and empty content.
C2_EmptyTextOneChunk ==
    (pc # "call" /\ size > 0 /\ step > 0 /\ text = <<>>) =>
        /\ pc = "done"
        /\ out = <<[start |-> 0, content |-> <<>>]>>

\* C5: with size <= 0 or step <= 0 the call ends by raising ValueError and
\* has produced no chunk.
C5_InvalidArgsRaise ==
    (pc # "call" /\ (size <= 0 \/ step <= 0)) =>
        /\ pc = "raised"
        /\ err = "ValueError"
        /\ out = <<>>

C5_Witness ==
    /\ pc = "raised" /\ err = "ValueError"
    /\ size > 0 /\ step <= 0
    /\ text # <<>>

HelloCall == pc = "done" /\ text = Hello /\ size = ExampleSize /\ step = ExampleStep

---------------------------------------------------------------------------
(* chunk_documents *)

MaxDocs == 2      \* longest list of records passed to chunk_documents

DocContents == {<<>>, <<"a", "b", "c">>, Digits}
DocPaths == {"a.md", "b.md"}

\* Records as read_repo_data builds them (content and path), a record without
\* a content field, and records whose front matter has a field named start.
DocRecords ==
    {[content |-> c, path |-> p] : c \in DocContents, p \in DocPaths}
    \cup {[path |-> p] : p \in DocPaths}
    \cup {[content |-> c, path |-> "a.md", start |-> 7] : c \in DocContents}
    \cup {[path |-> "a.md", start |-> 7]}

DocLists == UNION {[1..n -> DocRecords] : n \in 0..MaxDocs}

\* base = doc.copy() after base.pop("content", ""): doc without its content.
Base(doc) == [k \in (DOMAIN doc) \ {"content"} |-> doc[k]]

\* full = base.pop("content", ""): the content, the empty string when absent.
Full(doc) == IF "content" \in DOMAIN doc THEN doc["content"] ELSE <<>>

\* ch.update(base): every key of base is set in ch, replacing ch's own value.
Update(ch, base) ==
    [k \in (DOMAIN ch) \cup (DOMAIN base) |-> IF k \in DOMAIN base THEN base[k] ELSE ch[k]]

\* The body of "for doc in docs" from the d-th record on, having built acc.
\* An exception of sliding_window leaves chunk_documents without a list.
RECURSIVE ChunkLoop(_, _, _, _, _)
ChunkLoop(ds, sz, st, d, acc) ==
    IF d > Len(ds)
    THEN [err |-> "None", out |-> acc]
    ELSE LET r == sliding_window(Full(ds[d]), sz, st)
         IN  IF r.err # "None"
             THEN [err |-> r.err, out |-> <<>>]
             ELSE ChunkLoop(ds, sz, st, d + 1,
                            acc \o [k \in 1..Len(r.out) |-> Update(r.out[k], Base(ds[d]))])

chunk_documents(ds, sz, st) == ChunkLoop(ds, sz, st, 1, <<>>)

InitChunk ==
    /\ pc = "call"
    /\ docs \in DocLists /\ size \in Sizes /\ step \in Steps
    /\ text = <<>> /\ out = <<>> /\ chunks = <<>> /\ err = "None"
    /\ NoRepo
    /\ NoSearch

ChunkDocumentsCall ==
    /\ pc = "call"
    /\ LET r == chunk_documents(docs, size, step)
       IN  /\ chunks' = r.out
           /\ err' = r.err
           /\ pc' = IF r.err = "None" THEN "done" ELSE "raised"
    /\ UNCHANGED <<text, size, step, out, docs, branches, include_exts,
                   include_prefixes, bi, zf, fi, last_err, attempts, result,
                   searchVars>>

NextChunk == ChunkDocumentsCall

SpecChunk == InitChunk /\ [][NextChunk]_vars

---------------------------------------------------------------------------
(* Properties of chunk_documents, checked under SpecChunk *)

\* The windows of the records of ds, record after record: what sliding_window
\* returns for each record's content.
RECURSIVE Windows(_, _, _)
Windows(ds, sz, st) ==
    IF ds = <<>> THEN <<>>
    ELSE sliding_window(Full(Head(ds)), sz, st).out \o Windows(Tail(ds), sz, st)

\* C3: every chunk carries its own window's start offset and substring, also
\* when the source record has a field named start or content.
C3_ChunkValueWins ==
    (pc = "done" /\ size > 0 /\ step > 0) =>
        /\ Len(chunks) = Len(Windows(docs, size, step))
        /\ \A k \in 1..Len(chunks) :
              /\ chunks[k].start = Windows(docs, size, step)[k].start
              /\ chunks[k].content = Windows(docs, size, step)[k].content

\* Chunk c is derived from record d: it has d's fields other than content and
\* start unchanged, and its content is d's content from c.start on, at most
\* size characters.
DerivedFrom(c, d) ==
    /\ \A k \in (DOMAIN d) \ {"content", "start"} : k \in DOMAIN c /\ c[k] = d[k]
    /\ c.start >= 0
    /\ c.content = Slice(Full(d), c.start, c.start + size)

\* C4: each chunk carries the fields of its source record other than content
\* and start unchanged and its content is the source content from its start
\* on, the chunks of a record coming before those of the next record; the
\* record {content:"0123456789", path:"a.md"} with size 4 and step 4 yields
\* (0,"0123"), (4,"4567"), (8,"89"), each with path "a.md".
C4_MetadataPreserved ==
    (pc = "done" /\ size > 0 /\ step > 0) =>
        /\ \E src \in [1..Len(chunks) -> 1..Len(docs)] :
              /\ \A k \in 1..(Len(chunks) - 1) : src[k] <= src[k + 1]
              /\ \A k \in 1..Len(chunks) : DerivedFrom(chunks[k], docs[src[k]])
        /\ (docs = <<[content |-> Digits, path |-> "a.md"]>> /\ size = 4 /\ step = 4) =>
              chunks = << [start |-> 0, content |-> <<"0","1","2","3">>, path |-> "a.md"],
                          [start |-> 4, content |-> <<"4","5","6","7">>, path |-> "a.md"],
                          [start |-> 8, content |-> <<"8","9">>, path |-> "a.md"] >>

\* No record passed to chunk_documents has a field named start.
NoMetaStart == \A d \in 1..Len(docs) : "start" \notin DOMAIN docs[d]

\* The same for records without a field named start.
MetadataPreservedWithoutMetaStart == NoMetaStart => C4_MetadataPreserved

---------------------------------------------------------------------------
(* read_repo_data *)

MaxBranches == 2  \* longest tuple of candidate branches
MaxEntries == 2   \* most entries in an archive

BranchNames == {"main", "master"}
BranchLists == UNION {[1..n -> BranchNames] : n \in 0..MaxBranches}

ExtMd == <<".", "m", "d">>
ExtMdx == <<".", "m", "d", "x">>
PrefixEips == <<"E", "I", "P", "S", "/">>
ExtSets == {{ExtMd}, {ExtMd, ExtMdx}}
PrefixSets == {{}, {PrefixEips}}

\* "Repo-main/EIPS/eip-20.md"
NameEip20 == <<"R","e","p","o","-","m","a","i","n","/","E","I","P","S","/",
               "e","i","p","-","2","0",".","m","d">>
\* "Repo-main/README.md"
NameReadme == <<"R","e","p","o","-","m","a","i","n","/","R","E","A","D","M","E",".","m","d">>
\* "top.md"
NameTop == <<"t","o","p",".","m","d">>
\* "Repo-main/EIPS/X.MDX"
NameUpper == <<"R","e","p","o","-","m","a","i","n","/","E","I","P","S","/","X",".","M","D","X">>

EntryNames == {NameEip20, NameReadme, NameTop, NameUpper}

\* zf.infolist(): the entry names of an archive, in archive order.
Archives == UNION {[1..n -> EntryNames] : n \in 0..MaxEntries}

\* What requests.get, raise_for_status and zipfile.ZipFile can raise.
FetchErrors == {"RequestException", "BadZipFile"}

Body == <<"b", "o", "d", "y">>
NoMetadata == [k \in {} |-> 0]
RichMetadata == [title |-> "T", start |-> 7, branch |-> "evil",
                 path |-> <<"x">>, content |-> <<"m">>]

\* What frontmatter.loads returns for the file of an entry when it does not
\* raise: metadata and body. The file of "eip-20.md" has front matter that
\* names fields the code sets itself; the other files have none.
Post(name) ==
    [metadata |-> IF name = NameEip20 THEN RichMetadata ELSE NoMetadata, content |-> Body]

UpperCase == <<"A","B","C","D","E","F","G","H","I","J","K","L","M",
               "N","O","P","Q","R","S","T","U","V","W","X","Y","Z">>
LowerCase == <<"a","b","c","d","e","f","g","h","i","j","k","l","m",
               "n","o","p","q","r","s","t","u","v","w","x","y","z">>

LowerChar(c) ==
    IF \E i \in 1..Len(UpperCase) : UpperCase[i] = c
    THEN LowerCase[CHOOSE i \in 1..Len(UpperCase) : UpperCase[i] = c]
    ELSE c

NotLowered(s) == s

\* name_lower = name.lower()
Lower(s) == [i \in 1..Len(s) |-> LowerChar(s[i])]

\* s.endswith(ts) for a tuple ts of suffixes
EndsWith(s, ts) ==
    \E t \in ts : Len(t) <= Len(s) /\ SubSeq(s, Len(s) - Len(t) + 1, Len(s)) = t

\* s.startswith(ts) for a tuple ts of prefixes
StartsWith(s, ts) ==
    \E t \in ts : Len(t) <= Len(s) /\ SubSeq(s, 1, Len(t)) = t

\* name.split("/", 1)
Split1(s) ==
    IF \A i \in 1..Len(s) : s[i] # "/"
    THEN <<s>>
    ELSE LET k == CHOOSE i \in 1..Len(s) : s[i] = "/" /\ \A j \in 1..(i - 1) : s[j] # "/"
         IN  <<SubSeq(s, 1, k - 1), SubSeq(s, k + 1, Len(s))>>

PathWhole(name) == name

\* path = parts[1]
Path(name) == Split1(name)[2]

\* The entry reaches the parser: none of the three "continue"s is taken.
Keep(name) ==
    /\ EndsWith(Lower(name), include_exts)
    /\ Len(Split1(name)) = 2
    /\ ~(include_prefixes # {} /\ ~StartsWith(Path(name), include_prefixes))

BranchReversed == branches[Len(branches) + 1 - bi]

\* for branch in branches
Branch == branches[bi]

\* data = post.to_dict()
ToDict(post) == Update(post.metadata, [content |-> post.content])

\* data[...] = ... of lines 113-118
Data(post, name) ==
    Update(ToDict(post),
           [content |-> post.content, filename |-> name, path |-> Path(name),
            repo_owner |-> "ethereum", repo_name |-> "EIPs", branch |-> Branch])

InitRepo ==
    /\ pc = "loop"
    /\ branches \in BranchLists
    /\ include_exts \in ExtSets
    /\ include_prefixes \in PrefixSets
    /\ bi = 1 /\ zf = <<>> /\ fi = 0 /\ docs = <<>>
    /\ last_err = NoErr /\ attempts = <<>> /\ result = NoResult
    /\ text = <<>> /\ size = 0 /\ step = 0 /\ out = <<>> /\ chunks = <<>>
    /\ err = "None"
    /\ NoSearch

ExceptKeepFirst(kind) ==
    /\ last_err' = IF last_err = NoErr THEN [kind |-> kind, at |-> bi] ELSE last_err
    /\ attempts' = Append(attempts, [branch |-> Branch, err |-> kind])
    /\ bi' = bi + 1
    /\ zf' = <<>> /\ fi' = 0
    /\ pc' = "loop"

\* except Exception as e: last_err = e, and the for loop goes on. The archive
\* and the position in it are not read again before the next archive is
\* opened: they are forgotten here. docs still holds the records of the
\* failed attempt: only line 85 replaces it.
Except(kind) ==
    /\ last_err' = [kind |-> kind, at |-> bi]
    /\ attempts' = Append(attempts, [branch |-> Branch, err |-> kind])
    /\ bi' = bi + 1
    /\ zf' = <<>> /\ fi' = 0
    /\ pc' = "loop"

\* requests.get, raise_for_status or ZipFile raises
FetchFails ==
    /\ pc = "loop" /\ bi <= Len(branches)
    /\ \E kind \in FetchErrors : Except(kind)
    /\ UNCHANGED <<text, size, step, out, docs, chunks, err, branches, include_exts,
                   include_prefixes, result,
                   searchVars>>

FetchOkKeepDocs ==
    /\ pc = "loop" /\ bi <= Len(branches)
    /\ \E a \in Archives : zf' = a
    /\ docs' = docs
    /\ fi' = 1
    /\ pc' = "extract"
    /\ UNCHANGED <<text, size, step, out, chunks, err, branches, include_exts,
                   include_prefixes, bi, last_err, attempts, result,
                   searchVars>>

\* the archive is downloaded and opened; docs = []
FetchOk ==
    /\ pc = "loop" /\ bi <= Len(branches)
    /\ \E a \in Archives : zf' = a
    /\ docs' = <<>>
    /\ fi' = 1
    /\ pc' = "extract"
    /\ UNCHANGED <<text, size, step, out, chunks, err, branches, include_exts,
                   include_prefixes, bi, last_err, attempts, result,
                   searchVars>>

\* one of the three "continue"s
SkipEntry ==
    /\ pc = "extract" /\ fi <= Len(zf)
    /\ ~Keep(zf[fi])
    /\ fi' = fi + 1
    /\ UNCHANGED <<pc, text, size, step, out, docs, chunks, err, branches, include_exts,
                   include_prefixes, bi, zf, last_err, attempts, result,
                   searchVars>>

\* the entry is parsed and its record appended
ParseOk ==
    /\ pc = "extract" /\ fi <= Len(zf)
    /\ Keep(zf[fi])
    /\ docs' = Append(docs, Data(Post(zf[fi]), zf[fi]))
    /\ fi' = fi + 1
    /\ UNCHANGED <<pc, text, size, step, out, chunks, err, branches, include_exts,
                   include_prefixes, bi, zf, last_err, attempts, result,
                   searchVars>>

\* frontmatter.loads raises, inside the try of the candidate
ParseFails ==
    /\ pc = "extract" /\ fi <= Len(zf)
    /\ Keep(zf[fi])
    /\ Except("ParseError")
    /\ UNCHANGED <<text, size, step, out, docs, chunks, err, branches, include_exts,
                   include_prefixes, result,
                   searchVars>>

\* zf.close(); return docs, branch
ReturnDocs ==
    /\ pc = "extract" /\ fi > Len(zf)
    /\ result' = [docs |-> docs, branch |-> Branch]
    /\ attempts' = Append(attempts, [branch |-> Branch, err |-> "None"])
    /\ pc' = "returned"
    /\ UNCHANGED <<text, size, step, out, docs, chunks, err, branches, include_exts,
                   include_prefixes, bi, zf, fi, last_err,
                   searchVars>>

\* the for loop is exhausted: raise RuntimeError(... last_err)
RaiseRuntimeError ==
    /\ pc = "loop" /\ bi > Len(branches)
    /\ err' = "RuntimeError"
    /\ pc' = "raised"
    /\ UNCHANGED <<text, size, step, out, docs, chunks, branches, include_exts,
                   include_prefixes, bi, zf, fi, last_err, attempts, result,
                   searchVars>>

NextRepo ==
    \/ FetchFails
    \/ FetchOk
    \/ SkipEntry
    \/ ParseOk
    \/ ParseFails
    \/ ReturnDocs
    \/ RaiseRuntimeError

SpecRepo == InitRepo /\ [][NextRepo]_vars

TypeRepo ==
    /\ pc \in {"loop", "extract", "returned", "raised"}
    /\ bi \in 1..(Len(branches) + 1)
    /\ Len(attempts) <= Len(branches)

---------------------------------------------------------------------------
(* Properties of read_repo_data, checked under SpecRepo *)

Failed(k) == attempts[k].err # "None"

\* C6: the candidates are attempted in list order, one at a time, each
\* failed attempt followed by the next candidate; the branch returned is the
\* first candidate whose attempt succeeds and nothing is attempted after it.
C6_FirstSuccessInOrder ==
    /\ \A k \in 1..Len(attempts) : k <= Len(branches) /\ attempts[k].branch = branches[k]
    /\ \A k \in 1..(Len(attempts) - 1) : Failed(k)
    /\ pc \in {"loop", "extract"} =>
          /\ bi = Len(attempts) + 1
          /\ \A k \in 1..Len(attempts) : Failed(k)
    /\ (pc = "loop" /\ bi <= Len(branches)) => ENABLED (FetchOk \/ FetchFails)
    /\ pc = "returned" =>
          /\ attempts # <<>>
          /\ ~Failed(Len(attempts))
          /\ result.branch = branches[Len(attempts)]
          /\ ~ENABLED NextRepo
    /\ pc # "returned" => result = NoResult

C6_Witness ==
    /\ pc = "returned"
    /\ Len(attempts) = 2
    /\ branches[1] # branches[2]
    /\ Failed(1)
    /\ result.branch = branches[2]

\* C7: when every candidate's attempt has failed the call returns no
\* records and raises one RuntimeError carrying the error of the last
\* candidate attempted; it raises only after all candidates were attempted.
C7_AllFailRaises ==
    /\ (pc = "loop" /\ bi > Len(branches)) => ENABLED RaiseRuntimeError
    /\ pc = "raised" =>
          /\ err = "RuntimeError"
          /\ result = NoResult
          /\ Len(attempts) = Len(branches)
          /\ \A k \in 1..Len(attempts) : Failed(k)
          /\ last_err = IF attempts = <<>> THEN NoErr
                        ELSE [kind |-> attempts[Len(attempts)].err, at |-> Len(attempts)]
    /\ pc # "raised" => err = "None"

C7_Witness ==
    /\ pc = "raised" /\ err = "RuntimeError"
    /\ Len(attempts) >= 2
    /\ attempts[1].err # attempts[Len(attempts)].err
    /\ last_err.kind = attempts[Len(attempts)].err

\* C8: once the parser has failed on a file of a fetched archive that passed
\* the filters, the call ends by raising to its caller and does not return a
\* document list.
C8_ParseFailurePropagates ==
    (pc \in {"returned", "raised"} /\ \E k \in 1..Len(attempts) : attempts[k].err = "ParseError")
        => (pc = "raised" /\ result = NoResult)

\* t is a suffix of s
IsSuffix(t, s) == \E k \in 0..Len(s) : SubSeq(s, k + 1, Len(s)) = t

\* t is a prefix of s
IsPrefix(t, s) == \E k \in 0..Len(s) : SubSeq(s, 1, k) = t

\* name is head "/" p for a head without "/"
AfterFirstSlash(name, p) ==
    \E k \in 1..Len(name) :
        /\ name[k] = "/"
        /\ \A j \in 1..(k - 1) : name[j] # "/"
        /\ p = SubSeq(name, k + 1, Len(name))

\* The entry is to yield a record: its lowercased name ends with a configured
\* extension, it has a part after a first "/", and no prefix is configured or
\* that part starts with a configured prefix.
Selected(name) ==
    /\ \E e \in include_exts : IsSuffix(e, Lower(name))
    /\ \E k \in 1..Len(name) :
          /\ name[k] = "/"
          /\ \A j \in 1..(k - 1) : name[j] # "/"
          /\ \/ include_prefixes = {}
             \/ \E q \in include_prefixes : IsPrefix(q, SubSeq(name, k + 1, Len(name)))

\* The records ds are those of the selected entries of names, in order, each
\* with the entry name as filename and the part after the first "/" as path.
Extracted(ds, names) ==
    LET kept == SelectSeq(names, Selected)
    IN  /\ Len(ds) = Len(kept)
        /\ \A k \in 1..Len(ds) :
              /\ ds[k].filename = kept[k]
              /\ AfterFirstSlash(kept[k], ds[k].path)

\* "EIPS/eip-20.md"
PathEip20 == <<"E","I","P","S","/","e","i","p","-","2","0",".","m","d">>

ExampleFilters == include_exts = {ExtMd} /\ include_prefixes = {PrefixEips}

\* C9: an entry of a fetched archive yields a record exactly when it is
\* selected (extension on the lowercased name, two segments, prefix); the
\* record's path is the part after the first "/" and its filename the entry
\* name; an entry without "/" is skipped without an error. Under (".md",)
\* and ("EIPS/",) "Repo-main/EIPS/eip-20.md" is kept with path
\* "EIPS/eip-20.md" and "Repo-main/README.md" is dropped.
C9_ExtractionFilter ==
    /\ pc = "extract" => Extracted(docs, SubSeq(zf, 1, fi - 1))
    /\ pc = "returned" =>
          /\ Extracted(result.docs, zf)
          /\ fi = Len(zf) + 1
    /\ (pc = "returned" /\ ExampleFilters) =>
          /\ \A i \in 1..Len(zf) : zf[i] = NameEip20 =>
                \E k \in 1..Len(result.docs) :
                    /\ result.docs[k].filename = NameEip20
                    /\ result.docs[k].path = PathEip20
          /\ \A k \in 1..Len(result.docs) :
                result.docs[k].filename \notin {NameReadme, NameTop}

C9_Witness ==
    /\ pc = "returned" /\ ExampleFilters
    /\ \E i, j, l \in 1..Len(zf) :
          zf[i] = NameEip20 /\ zf[j] = NameReadme /\ zf[l] \in {NameTop, NameEip20}
    /\ Len(result.docs) >= 1
    /\ \A k \in 1..Len(result.docs) : result.docs[k].path = PathEip20

---------------------------------------------------------------------------
(* Further properties of sliding_window (SpecWindow), chunk_documents
   (SpecChunk) and read_repo_data (SpecRepo) *)

\* C11: no chunk is emitted after the first emitted chunk whose offset + size
\* is greater than or equal to len(text): only the last chunk can have
\* offset + size >= len(text), equality included.
C11_StopsAtFirstReachingEnd ==
    Returned =>
        \A k \in 1..Len(out) : out[k].start + size >= Len(text) => k = Len(out)

\* C12: chunk_documents called with size <= 0 or step <= 0 raises ValueError
\* and returns no chunk list, whatever the list of records, the empty list
\* included.
C12_InvalidParamsAlwaysFail ==
    (pc # "call" /\ (size <= 0 \/ step <= 0)) =>
        /\ pc = "raised"
        /\ err = "ValueError"

\* C13: every record returned by read_repo_data carries the returned branch
\* in its branch field, and the returned list holds the records of the
\* returned candidate's archive only: none built during an earlier, failed
\* attempt.
C13_RecordsOfReturnedBranch ==
    pc = "returned" =>
        /\ \A k \in 1..Len(result.docs) : result.docs[k].branch = result.branch
        /\ result.branch = branches[Len(attempts)]
        /\ Extracted(result.docs, zf)

C13_Witness ==
    /\ pc = "returned"
    /\ Len(attempts) = 2
    /\ attempts[1].err = "ParseError"
    /\ branches[1] # branches[2]
    /\ Len(result.docs) >= 1
    /\ \A k \in 1..Len(result.docs) : result.docs[k].branch = branches[2]

---------------------------------------------------------------------------
(* index_data and SearchTool *)

MaxIndexes == 2   \* most Index objects created (ingestion runs that reach line 269)
MaxTools == 2     \* most SearchTool objects created
MaxSearches == 2  \* most SearchTool.search calls begun

DefaultSize == 2000
DefaultStep == 1000
NumResults == 5

\* What read_repo_data hands to index_data when it returns.
ReadResults ==
    {[docs |-> d, branch |-> "main"] :
        d \in {<<>>, <<[content |-> Digits, path |-> "a.md"]>>}}

\* The chunking_params of a call; None stands for the default of line 264.
ChunkingParams ==
    {[size |-> DefaultSize, step |-> DefaultStep], [size |-> 4, step |-> 4],
     [size |-> 0, step |-> 1]}

\* index.search(query, num_results=k) of the text index: the first k records
\* in the engine's order, which is taken to be the fitted order.
IndexSearch(ix, k) == SubSeq(ix.docs, 1, Min(k, Len(ix.docs)))

InitIndex ==
    /\ pc = "idle"
    /\ docs = <<>> /\ err = "None" /\ result = NoResult
    /\ NoSearch
    /\ text = <<>> /\ size = 0 /\ step = 0 /\ out = <<>> /\ chunks = <<>>
    /\ branches = <<>> /\ include_exts = {} /\ include_prefixes = {}
    /\ bi = 0 /\ zf = <<>> /\ fi = 0 /\ last_err = NoErr /\ attempts = <<>>

\* lines 259-265, read_repo_data raising: index_data ends with its error
IndexDataReadFails ==
    /\ pc = "idle" /\ Len(indexes) < MaxIndexes
    /\ err' = "RuntimeError"
    /\ docs' = <<>> /\ result' = NoResult
    /\ UNCHANGED <<pc, text, size, step, out, chunks, branches, include_exts,
                   include_prefixes, bi, zf, fi, last_err, attempts, searchVars>>

\* lines 259-265: docs, branch = read_repo_data(..); docs = chunk_documents(..)
\* when chunk is set. An exception of chunk_documents ends index_data.
IndexDataPrepare ==
    /\ pc = "idle" /\ Len(indexes) < MaxIndexes
    /\ \E r \in ReadResults, chunk \in BOOLEAN, params \in ChunkingParams :
          LET c == IF chunk THEN chunk_documents(r.docs, params.size, params.step)
                   ELSE [err |-> "None", out |-> r.docs]
          IN  /\ result' = r
              /\ err' = c.err
              /\ docs' = c.out
              /\ pc' = IF c.err = "None" THEN "build" ELSE "idle"
    /\ UNCHANGED <<text, size, step, out, chunks, branches, include_exts,
                   include_prefixes, bi, zf, fi, last_err, attempts, searchVars>>

IndexReused ==
    /\ pc = "build"
    /\ IF indexes = <<>>
       THEN /\ indexes' = <<[state |-> "new", docs |-> <<>>, returned |-> FALSE]>>
            /\ index' = 1
       ELSE /\ indexes' = [indexes EXCEPT ![Len(indexes)].state = "new",
                                          ![Len(indexes)].docs = <<>>]
            /\ index' = Len(indexes)
    /\ pc' = "fit"
    /\ UNCHANGED <<text, size, step, out, docs, chunks, err, branches, include_exts,
                   include_prefixes, bi, zf, fi, last_err, attempts, result,
                   tools, searches>>

\* line 269: index = Index(text_fields=[...]), a new object, not yet fitted
NewIndex ==
    /\ pc = "build"
    /\ indexes' = Append(indexes, [state |-> "new", docs |-> <<>>, returned |-> FALSE])
    /\ index' = Len(indexes) + 1
    /\ pc' = "fit"
    /\ UNCHANGED <<text, size, step, out, docs, chunks, err, branches, include_exts,
                   include_prefixes, bi, zf, fi, last_err, attempts, result,
                   tools, searches>>

\* line 270: index.fit(docs)
Fit ==
    /\ pc = "fit"
    /\ indexes' = [indexes EXCEPT ![index].state = "fitted", ![index].docs = docs]
    /\ pc' = "return"
    /\ UNCHANGED <<text, size, step, out, docs, chunks, err, branches, include_exts,
                   include_prefixes, bi, zf, fi, last_err, attempts, result,
                   index, tools, searches>>

\* line 272: return index, branch: the caller now holds the index
IndexDataReturn ==
    /\ pc = "return"
    /\ indexes' = [indexes EXCEPT ![index].returned = TRUE]
    /\ index' = 0
    /\ pc' = "idle"
    /\ UNCHANGED <<text, size, step, out, docs, chunks, err, branches, include_exts,
                   include_prefixes, bi, zf, fi, last_err, attempts, result,
                   tools, searches>>

\* SearchTool(index) on an index that index_data has returned: self.index = index
NewTool ==
    /\ Len(tools) < MaxTools
    /\ \E id \in 1..Len(indexes) :
          /\ indexes[id].returned
          /\ tools' = Append(tools, [index |-> id])
    /\ UNCHANGED <<pc, text, size, step, out, docs, chunks, err, branches, include_exts,
                   include_prefixes, bi, zf, fi, last_err, attempts, result,
                   indexes, index, searches>>

\* SearchTool.search is entered: self.index is read; began records the
\* object as it is at that moment.
SearchBegin ==
    /\ Len(searches) < MaxSearches
    /\ \E t \in 1..Len(tools) :
          searches' = Append(searches,
              [tool |-> t, index |-> tools[t].index, began |-> indexes[tools[t].index],
               status |-> "running", results |-> <<>>])
    /\ UNCHANGED <<pc, text, size, step, out, docs, chunks, err, branches, include_exts,
                   include_prefixes, bi, zf, fi, last_err, attempts, result,
                   indexes, index, tools>>

\* return self.index.search(query, num_results=5): the index object is read
SearchEnd ==
    /\ \E k \in 1..Len(searches) :
          /\ searches[k].status = "running"
          /\ searches' = [searches EXCEPT
                 ![k].status = "done",
                 ![k].results = IndexSearch(indexes[searches[k].index], NumResults)]
    /\ UNCHANGED <<pc, text, size, step, out, docs, chunks, err, branches, include_exts,
                   include_prefixes, bi, zf, fi, last_err, attempts, result,
                   indexes, index, tools>>

NextIndex ==
    \/ IndexDataReadFails
    \/ IndexDataPrepare
    \/ NewIndex
    \/ Fit
    \/ IndexDataReturn
    \/ NewTool
    \/ SearchBegin
    \/ SearchEnd

SpecIndex == InitIndex /\ [][NextIndex]_vars

---------------------------------------------------------------------------
(* Properties of index_data and SearchTool, checked under SpecIndex *)

\* Every search reads an index that was fitted and returned when the search
\* began and is the same still; a finished search holds that index's answer.
SearchesSeeFittedIndex ==
    \A k \in 1..Len(searches) :
        /\ searches[k].began.state = "fitted"
        /\ searches[k].began.returned
        /\ indexes[searches[k].index] = searches[k].began
        /\ searches[k].status = "done" =>
              searches[k].results = IndexSearch(searches[k].began, NumResults)

\* A step leaves every returned index object and every tool's reference as
\* they are, and a search step leaves all index objects as they are.
ObjectsKept ==
    /\ \A id \in 1..Len(indexes) :
          indexes[id].returned => (Len(indexes') >= id /\ indexes'[id] = indexes[id])
    /\ \A t \in 1..Len(tools) : Len(tools') >= t /\ tools'[t] = tools[t]
    /\ searches' # searches => indexes' = indexes
    /\ Len(indexes') > Len(indexes) => indexes'[Len(indexes')].state = "new"

\* C14: in every interleaving of searches with ingestion runs each search is
\* answered from an index completely fitted before the search began:
\* index_data builds a new index object in every run and never changes a
\* returned one, search does not change its index, and a tool's index
\* reference stays as set at construction.
C14_SearchOnFittedIndex ==
    /\ []SearchesSeeFittedIndex
    /\ [][ObjectsKept]_vars

C14_Witness ==
    /\ Len(indexes) = 2 /\ indexes[1].returned /\ indexes[2].state = "new"
    /\ \E k \in 1..Len(searches) :
          /\ searches[k].status = "running"
          /\ searches[k].index = 1
          /\ searches[k].began.docs # <<>>

====
